---------------------------- MODULE Spec2Model ----------------------------
(***************************************************************************)
(* Model of the Python metadata layer of flatcitybuf:                      *)
(*   src/py/src/column_meta.py  ColumnMeta, ColumnMeta.from_byte_buffer    *)
(*   src/py/src/header.py       HeaderMeta                                 *)
(*                                                                         *)
(* Python values are represented as follows.                               *)
(*   bytes            a sequence of byte values                            *)
(*   str              a sequence of code points                            *)
(*   None             <<>>                                                 *)
(*   a non-None value <<v>>   (so "str | None" is <<>> or <<s>>)           *)
(* A call either returns a value, [ok |-> TRUE, val |-> v], or raises,     *)
(* [ok |-> FALSE, err |-> kind].                                           *)
(***************************************************************************)
EXTENDS Integers, Sequences, FiniteSets, TLC

(***************************************************************************)
(* Bounds of the model.                                                    *)
(***************************************************************************)
\* Size of one column record: the number of string payload bytes, plus the
\* number of string offsets that point past the end of the buffer, plus the
\* number of scalar slots (precision, scale, nullable, unique, primary_key)
\* the table holds.
MaxSize == 2
\* Largest precision / scale value written into a record (smallest is -1).
MaxInt == 0
\* Largest number of column entries / attribute entries of one header.
MaxCols == 2
\* Largest number of operations made on an object after its construction.
MaxMutations == 1

(***************************************************************************)
(* Python building blocks.                                                 *)
(***************************************************************************)
PyNone == <<>>
PySome(v) == <<v>>

Return(v) == [ok |-> TRUE, val |-> v]
Raise(kind) == [ok |-> FALSE, err |-> kind]

\* The byte values records are built from: 'A', the lead byte 0xC3 of a
\* two-byte sequence, and the continuation byte 0xA9 (0xC3 0xA9 is U+00E9).
Bytes == {65, 195, 169}
\* The code points text is built from: 'A' and U+00E9.
Chars == {65, 233}

IsAscii(b) == b >= 0 /\ b <= 127
IsLead2(b) == b >= 194 /\ b <= 223
IsCont(b) == b >= 128 /\ b <= 191

\* bytes.decode("utf-8") (strict): one- and two-byte sequences; every other
\* byte pattern over Bytes (a lone lead byte, a lone continuation byte, a
\* lead byte followed by a non-continuation byte) raises UnicodeDecodeError,
\* the error kind InvalidEncoding.
RECURSIVE Utf8Valid(_)
Utf8Valid(bs) ==
    IF bs = <<>> THEN TRUE
    ELSE IF IsAscii(Head(bs)) THEN Utf8Valid(Tail(bs))
    ELSE IF IsLead2(Head(bs)) /\ Len(bs) >= 2 /\ IsCont(bs[2])
         THEN Utf8Valid(Tail(Tail(bs)))
    ELSE FALSE

RECURSIVE Utf8Text(_)
Utf8Text(bs) ==
    IF bs = <<>> THEN <<>>
    ELSE IF IsAscii(Head(bs)) THEN <<Head(bs)>> \o Utf8Text(Tail(bs))
    ELSE <<(Head(bs) - 192) * 64 + (bs[2] - 128)>> \o Utf8Text(Tail(Tail(bs)))

decode_utf8(bs) ==
    IF Utf8Valid(bs) THEN Return(Utf8Text(bs)) ELSE Raise("InvalidEncoding")

\* str.encode("utf-8") for code points below U+0800.
RECURSIVE encode_utf8(_)
encode_utf8(s) ==
    IF s = <<>> THEN <<>>
    ELSE (IF Head(s) <= 127
          THEN <<Head(s)>>
          ELSE <<192 + (Head(s) \div 64), 128 + (Head(s) % 64)>>)
         \o encode_utf8(Tail(s))

(***************************************************************************)
(* Column records: the content of a serialized column table as the         *)
(* generated accessors of FBColumnMeta see it.  A slot is <<>> when the    *)
(* table does not hold the field and <<v>> when it holds v; a string slot   *)
(* is OobSlot when the table holds an offset that points past the end of   *)
(* the buffer.  root is "ok" for a readable table, "empty" for a           *)
(* zero-length buffer and "oob" for a root offset that points past the end *)
(* of the buffer.                                                          *)
(***************************************************************************)
\* The column type enumeration of the format, in wire order (tag 0 first).
ColumnTypeNames ==
    <<"Byte", "UByte", "Bool", "Short", "UShort", "Int", "UInt", "Long",
      "ULong", "Float", "Double", "String", "Json", "DateTime", "Binary">>

\* Wire tags written into records: the first and the last tag of the
\* enumeration, and the first tag outside it.
TypeTags == {0, Len(ColumnTypeNames) - 1, Len(ColumnTypeNames)}

RECURSIVE BytesOfLen(_)
BytesOfLen(n) ==
    IF n = 0 THEN {<<>>}
    ELSE {<<b>> \o bs : b \in Bytes, bs \in BytesOfLen(n - 1)}

OobSlot == <<<<>>, <<>>>>

\* The string slots of size at most n: the payload bytes of a held string,
\* one for an offset past the end.
StrSlots(n) ==
    {PyNone} \cup {PySome(bs) : bs \in UNION {BytesOfLen(k) : k \in 0..n}}
    \cup (IF n >= 1 THEN {OobSlot} ELSE {})

SlotLen(slot) ==
    IF slot = PyNone THEN 0 ELSE IF slot = OobSlot THEN 1 ELSE Len(slot[1])

\* The (name, title, description, metadata) slots of size at most n in all.
StringFields(n) ==
    UNION {UNION {UNION {
        {<<nm, t, d, m>> :
            m \in StrSlots(n - SlotLen(nm) - SlotLen(t) - SlotLen(d))}
        : d \in StrSlots(n - SlotLen(nm) - SlotLen(t))}
        : t \in StrSlots(n - SlotLen(nm))}
        : nm \in StrSlots(n)}

Payload(strs) ==
    SlotLen(strs[1]) + SlotLen(strs[2]) + SlotLen(strs[3]) + SlotLen(strs[4])

IntSlots == {PyNone} \cup {PySome(i) : i \in -1..MaxInt}
BoolSlots == {PyNone, PySome(TRUE), PySome(FALSE)}

Held(slot) == IF slot = PyNone THEN 0 ELSE 1

\* The (precision, scale, nullable, unique, primary_key) slots of which at
\* most n are held.
ScalarFields(n) ==
    {sc \in IntSlots \X IntSlots \X BoolSlots \X BoolSlots \X BoolSlots :
        Held(sc[1]) + Held(sc[2]) + Held(sc[3]) + Held(sc[4]) + Held(sc[5])
            <= n}

Table(strs, tag, sc) ==
    [root |-> "ok", name |-> strs[1], type |-> tag, title |-> strs[2],
     description |-> strs[3], precision |-> sc[1], scale |-> sc[2],
     nullable |-> sc[3], unique |-> sc[4], primary_key |-> sc[5],
     metadata |-> strs[4]]

\* The string fields of a column record.
StringFieldNames == {"name", "title", "description", "metadata"}

EmptyTable ==
    Table(<<PyNone, PyNone, PyNone, PyNone>>, 0,
          <<PyNone, PyNone, PyNone, PyNone, PyNone>>)

\* The buffers no table can be read from.
MalformedBuffers == {[EmptyTable EXCEPT !.root = r] : r \in {"empty", "oob"}}

(***************************************************************************)
(* The generated accessors (FlatCityBuf.ColumnMeta, FlatCityBuf.ColumnType)*)
(***************************************************************************)
GetRootAsColumnMeta(bb) ==
    IF bb.root = "ok" THEN Return(bb) ELSE Raise("MalformedBuffer")

\* String accessors return None for a field the table does not hold, the
\* bytes of a field it holds, and fail on an offset past the end.
StringAt(slot) ==
    IF slot = OobSlot THEN Raise("MalformedBuffer") ELSE Return(slot)

Name(fb) == StringAt(fb.name)
Title(fb) == StringAt(fb.title)
Description(fb) == StringAt(fb.description)
Metadata(fb) == StringAt(fb.metadata)

\* The defaults of the parameters of ColumnMeta.__init__; they are the
\* schema defaults the scalar accessors return for a field the table does
\* not hold.
DefaultPrecision == -1
DefaultScale == -1
DefaultNullable == TRUE
DefaultUnique == FALSE
DefaultPrimaryKey == FALSE

SlotOr(slot, default) == IF slot = PyNone THEN default ELSE slot[1]

Type(fb) == fb.type
Precision(fb) == SlotOr(fb.precision, DefaultPrecision)
Scale(fb) == SlotOr(fb.scale, DefaultScale)
Nullable(fb) == SlotOr(fb.nullable, DefaultNullable)
Unique(fb) == SlotOr(fb.unique, DefaultUnique)
PrimaryKey(fb) == SlotOr(fb.primary_key, DefaultPrimaryKey)

\* ColumnType.Name: the name of a tag of the enumeration; a tag outside it
\* is the error kind InvalidEnum.
ColumnTypeName(v) ==
    IF v + 1 \in DOMAIN ColumnTypeNames
    THEN Return(ColumnTypeNames[v + 1])
    ELSE Raise("InvalidEnum")

(***************************************************************************)
(* column_meta.py                                                          *)
(***************************************************************************)
\* ColumnMeta.__init__
ColumnMetaInit(name, type, title, description, precision, scale, nullable, unique, primary_key, metadata) ==
    [name |-> name, type |-> type, title |-> title,
     description |-> description, precision |-> precision, scale |-> scale,
     nullable |-> nullable, unique |-> unique, primary_key |-> primary_key,
     metadata |-> metadata]

\* Variant of Truthy: the test "raw is not None".
TruthyIsNotNone(raw) == raw # PyNone
\* Python truth value of an accessor result: None and b"" are false.
Truthy(raw) == raw # PyNone /\ raw[1] # <<>>

\* Variant of DecodeOr: bytes that are not valid UTF-8 decode to the empty
\* text instead of raising.
DecodeOrIgnoreErrors(field, default) ==
    IF ~field.ok THEN field
    ELSE IF Truthy(field.val)
    THEN Return(PySome(IF Utf8Valid(field.val[1])
                       THEN Utf8Text(field.val[1]) ELSE <<>>))
    ELSE Return(default)
\* Variant of DecodeOr: the empty string is the fallback of every field.
DecodeOrEmpty(field, default) ==
    IF ~field.ok THEN field
    ELSE IF Truthy(field.val)
    THEN LET r == decode_utf8(field.val[1])
         IN  IF r.ok THEN Return(PySome(r.val)) ELSE r
    ELSE Return(PySome(<<>>))
\* "field().decode('utf-8') if field() else default", field() being the
\* result of the accessor call.
DecodeOr(field, default) ==
    IF ~field.ok THEN field
    ELSE IF Truthy(field.val)
    THEN LET r == decode_utf8(field.val[1])
         IN  IF r.ok THEN Return(PySome(r.val)) ELSE r
    ELSE Return(default)

\* The right-hand sides of from_byte_buffer, in the order they are evaluated.
name_of(fb) == DecodeOr(Name(fb), PySome(<<>>))
\* Variant of type_of: a tag outside the enumeration maps to the first type.
type_of_or_first(fb) ==
    LET r == ColumnTypeName(Type(fb))
    IN  IF r.ok THEN r ELSE Return(ColumnTypeNames[1])
type_of(fb) == ColumnTypeName(Type(fb))
title_of(fb) == DecodeOr(Title(fb), PyNone)
description_of(fb) == DecodeOr(Description(fb), PyNone)
metadata_of(fb) == DecodeOr(Metadata(fb), PyNone)

\* Variant of from_byte_buffer: the failure of the root read is ignored.
from_byte_buffer_unchecked_root(bb) ==
    LET name == name_of(bb)
        type == type_of(bb)
        title == title_of(bb)
        description == description_of(bb)
        metadata == metadata_of(bb)
    IN  IF ~name.ok THEN name
        ELSE IF ~type.ok THEN type
        ELSE IF ~title.ok THEN title
        ELSE IF ~description.ok THEN description
        ELSE IF ~metadata.ok THEN metadata
        ELSE Return(ColumnMetaInit(name.val, type.val, title.val,
                                   description.val, Precision(bb), Scale(bb),
                                   Nullable(bb), Unique(bb), PrimaryKey(bb),
                                   metadata.val))
\* ColumnMeta.from_byte_buffer: the first statement that raises ends the
\* call; cls(...) is reached only when none did.
from_byte_buffer(bb) ==
    LET root == GetRootAsColumnMeta(bb)
        name == name_of(bb)
        type == type_of(bb)
        title == title_of(bb)
        description == description_of(bb)
        metadata == metadata_of(bb)
    IN  IF ~root.ok THEN root
        ELSE IF ~name.ok THEN name
        ELSE IF ~type.ok THEN type
        ELSE IF ~title.ok THEN title
        ELSE IF ~description.ok THEN description
        ELSE IF ~metadata.ok THEN metadata
        ELSE Return(ColumnMetaInit(name.val, type.val, title.val,
                                   description.val, Precision(bb), Scale(bb),
                                   Nullable(bb), Unique(bb), PrimaryKey(bb),
                                   metadata.val))

(***************************************************************************)
(* header.py                                                               *)
(***************************************************************************)
\* Variant of HeaderMetaInit: the columns are stored in reverse order.
HeaderMetaInitReversed(a) ==
    [f \in DOMAIN a |->
        IF f = "columns"
        THEN [i \in DOMAIN a.columns |-> a.columns[Len(a.columns) + 1 - i]]
        ELSE a[f]]
\* HeaderMeta.__init__: every argument is stored as it was passed.
HeaderMetaInit(a) ==
    [transform |-> a.transform,
     columns |-> a.columns,
     features_count |-> a.features_count,
     index_node_size |-> a.index_node_size,
     geographical_extent |-> a.geographical_extent,
     reference_system |-> a.reference_system,
     identifier |-> a.identifier,
     reference_date |-> a.reference_date,
     title |-> a.title,
     poc_contact_name |-> a.poc_contact_name,
     poc_contact_type |-> a.poc_contact_type,
     poc_role |-> a.poc_role,
     poc_phone |-> a.poc_phone,
     poc_email |-> a.poc_email,
     poc_website |-> a.poc_website,
     poc_address_thoroughfare_number |-> a.poc_address_thoroughfare_number,
     poc_address_thoroughfare_name |-> a.poc_address_thoroughfare_name,
     poc_address_locality |-> a.poc_address_locality,
     poc_address_postcode |-> a.poc_address_postcode,
     poc_address_country |-> a.poc_address_country,
     attributes |-> a.attributes]

\* The fields of a header other than columns and attributes: passed through
\* by the header decoder, one sample value each.
OpaqueFields ==
    [transform |-> "transform",
     features_count |-> 1,
     index_node_size |-> 16,
     geographical_extent |-> "extent",
     reference_system |-> "crs",
     identifier |-> PySome(<<65>>),
     reference_date |-> PyNone,
     title |-> PySome(<<233>>),
     poc_contact_name |-> PyNone,
     poc_contact_type |-> PyNone,
     poc_role |-> PyNone,
     poc_phone |-> PyNone,
     poc_email |-> PyNone,
     poc_website |-> PyNone,
     poc_address_thoroughfare_number |-> PyNone,
     poc_address_thoroughfare_name |-> PyNone,
     poc_address_locality |-> PyNone,
     poc_address_postcode |-> PyNone,
     poc_address_country |-> PyNone]

HeaderArgs(columns, attributes) ==
    [f \in DOMAIN OpaqueFields \cup {"columns", "attributes"} |->
        IF f = "columns" THEN columns
        ELSE IF f = "attributes" THEN attributes
        ELSE OpaqueFields[f]]

(***************************************************************************)
(* The header decoder: reads the root, decodes the column entries in       *)
(* declared order with ColumnMeta.from_byte_buffer, stops at the first     *)
(* entry that fails and reports its error kind with the path columns[k],   *)
(* and passes the attribute list through.                                  *)
(***************************************************************************)
RaiseAt(kind, k) == [ok |-> FALSE, err |-> kind, field |-> "columns", index |-> k]

RECURSIVE decode_columns(_, _)
decode_columns(entries, k) ==
    IF entries = <<>> THEN Return(<<>>)
    ELSE LET c == from_byte_buffer(Head(entries))
         IN  IF ~c.ok THEN RaiseAt(c.err, k)
             ELSE LET rest == decode_columns(Tail(entries), k + 1)
                  IN  IF ~rest.ok THEN rest
                      ELSE Return(<<c.val>> \o rest.val)

decode_header(hb) ==
    IF hb.root # "ok" THEN Raise("MalformedBuffer")
    ELSE LET cols == decode_columns(hb.columns, 0)
         IN  IF ~cols.ok THEN cols
             ELSE Return(HeaderMetaInit(HeaderArgs(cols.val, hb.attributes)))

(***************************************************************************)
(* The inputs of the calls.                                                *)
(***************************************************************************)
\* The column buffers a caller hands to the column decoder.
ColumnBuffers ==
    UNION {{Table(strs, tag, sc) :
                tag \in TypeTags, sc \in ScalarFields(MaxSize - Payload(strs))}
           : strs \in StringFields(MaxSize)}
    \cup MalformedBuffers

RECURSIVE SeqsOfLen(_, _)
SeqsOfLen(S, n) ==
    IF n = 0 THEN {<<>>}
    ELSE {<<x>> \o xs : x \in S, xs \in SeqsOfLen(S, n - 1)}

SeqsUpTo(S, n) == UNION {SeqsOfLen(S, k) : k \in 0..n}

\* The column entries of headers: the column buffers that hold at most a
\* name 'A' and a description that is a lone lead byte, and the buffer
\* whose root offset points past its end.
HeaderColumns ==
    {b \in ColumnBuffers :
        /\ b.name \in {PyNone, PySome(<<65>>)}
        /\ b.description \in {PyNone, PySome(<<195>>)}
        /\ b.title = PyNone /\ b.metadata = PyNone
        /\ b.precision = PyNone /\ b.scale = PyNone /\ b.nullable = PyNone
        /\ b.unique = PyNone /\ b.primary_key = PyNone
        /\ b.root # "empty"}

AttributeValues == {0, 1}

\* The header buffers a caller hands to the header decoder.
HeaderBuffers ==
    {[root |-> r, columns |-> cs, attributes |-> as] :
        r \in {"ok"}, cs \in SeqsUpTo(HeaderColumns, MaxCols),
        as \in SeqsUpTo(AttributeValues, MaxCols)}
    \cup {[root |-> r, columns |-> <<>>, attributes |-> <<>>] :
            r \in {"empty", "oob"}}

NoHeader == [root |-> "empty", columns |-> <<>>, attributes |-> <<>>]

(***************************************************************************)
(* The reference encoder of a column descriptor: text is written as UTF-8, *)
(* None is not written, the type is written as its tag, and a scalar equal *)
(* to the schema default is not written.                                   *)
(***************************************************************************)
TagOf(name) ==
    CHOOSE t \in 0..(Len(ColumnTypeNames) - 1) : ColumnTypeNames[t + 1] = name

StrSlotOf(text) ==
    IF text = PyNone THEN PyNone ELSE PySome(encode_utf8(text[1]))

ScalarSlotOf(v, default) == IF v = default THEN PyNone ELSE PySome(v)

encode_column(d) ==
    Table(<<StrSlotOf(d.name), StrSlotOf(d.title), StrSlotOf(d.description),
            StrSlotOf(d.metadata)>>,
          TagOf(d.type),
          <<ScalarSlotOf(d.precision, DefaultPrecision),
            ScalarSlotOf(d.scale, DefaultScale),
            ScalarSlotOf(d.nullable, DefaultNullable),
            ScalarSlotOf(d.unique, DefaultUnique),
            ScalarSlotOf(d.primary_key, DefaultPrimaryKey)>>)

\* The texts whose encoding has at most n bytes.
Texts(n) == {s \in SeqsUpTo(Chars, n) : Len(encode_utf8(s)) <= n}
OptTexts(n) == {PyNone} \cup {PySome(s) : s \in Texts(n)}
TextLen(text) == IF text = PyNone THEN 0 ELSE Len(encode_utf8(text[1]))

\* The valid column descriptors whose encoding is one of ColumnBuffers: the
\* name is a non-empty text, the type is a name of the enumeration.
Descriptors ==
    {d \in
        UNION {UNION {UNION {
            {ColumnMetaInit(nm, ColumnTypeNames[tag + 1], t, ds, p, sc, nl,
                            u, pk, m) :
                m \in OptTexts(MaxSize - TextLen(nm) - TextLen(t)
                                  - TextLen(ds)),
                tag \in {v \in TypeTags : v + 1 \in DOMAIN ColumnTypeNames},
                p \in -1..MaxInt, sc \in -1..MaxInt, nl \in BOOLEAN,
                u \in BOOLEAN, pk \in BOOLEAN}
            : ds \in OptTexts(MaxSize - TextLen(nm) - TextLen(t))}
            : t \in OptTexts(MaxSize - TextLen(nm))}
            : nm \in {PySome(s) : s \in Texts(MaxSize) \ {<<>>}}}
     : encode_column(d) \in ColumnBuffers}

(***************************************************************************)
(* State.                                                                  *)
(***************************************************************************)
VARIABLES
    \* The decoder calls of one caller.
    pc,     \* "idle", or the call that has just ended
    bb,     \* the buffer of the last column decode
    hb,     \* the buffer of the last header decode
    orig,   \* <<d>> when the last column buffer is the encoding of d
    ret,    \* what the last call returned or raised
    \* The objects a caller constructs and holds.
    heap,   \* the caller's lists, by reference
    obj,    \* the object held: its kind and its attributes
    snap,   \* the field values of obj when its constructor returned
    muts,   \* the number of operations made on obj since
    \* Decodes running in several threads.
    bufs,   \* the buffers the threads decode
    bufs0,  \* the buffers as they were handed over
    tpc,    \* per thread: the statement of from_byte_buffer it is at
    targ,   \* per thread: the buffer it decodes
    tloc,   \* per thread: the local variables of from_byte_buffer
    tret    \* per thread: what the call returned or raised

callVars == <<pc, bb, hb, orig, ret>>
objVars == <<heap, obj, snap, muts>>
threadVars == <<bufs, bufs0, tpc, targ, tloc, tret>>
vars == <<callVars, objVars, threadVars>>

NoRet == [ok |-> FALSE, err |-> "none"]
NoObject == [kind |-> "none"]

Threads == {1, 2}
BufferIds == {1, 2}
ListIds == {1, 2}

\* The locals of from_byte_buffer before they are assigned.
NoLocals ==
    [name |-> PyNone, type |-> "", title |-> PyNone, description |-> PyNone,
     precision |-> 0, scale |-> 0, nullable |-> FALSE, unique |-> FALSE,
     primary_key |-> FALSE, metadata |-> PyNone]

CallsIdle ==
    /\ pc = "idle"
    /\ bb = EmptyTable
    /\ hb = NoHeader
    /\ orig = PyNone
    /\ ret = NoRet

ObjectsIdle ==
    /\ heap = [r \in ListIds |-> <<>>]
    /\ obj = NoObject
    /\ snap = NoObject
    /\ muts = 0

ThreadsIdle ==
    /\ tpc = [t \in Threads |-> "idle"]
    /\ targ = [t \in Threads |-> 1]
    /\ tloc = [t \in Threads |-> NoLocals]
    /\ tret = [t \in Threads |-> NoRet]

(***************************************************************************)
(* The decoder calls of one caller.                                        *)
(***************************************************************************)
Init ==
    /\ CallsIdle
    /\ ObjectsIdle
    /\ ThreadsIdle
    /\ bufs = [i \in BufferIds |-> EmptyTable]
    /\ bufs0 = bufs

\* The caller decodes one column buffer.
CallColumn ==
    /\ pc = "idle"
    /\ \E b \in ColumnBuffers :
        /\ bb' = b
        /\ ret' = from_byte_buffer(b)
    /\ pc' = "column"
    /\ UNCHANGED <<hb, orig, objVars, threadVars>>

\* The caller encodes a descriptor and decodes the bytes.
CallRoundTrip ==
    /\ pc = "idle"
    /\ \E d \in Descriptors :
        /\ orig' = PySome(d)
        /\ bb' = encode_column(d)
        /\ ret' = from_byte_buffer(encode_column(d))
    /\ pc' = "roundtrip"
    /\ UNCHANGED <<hb, objVars, threadVars>>

\* The caller decodes one header buffer.
CallHeader ==
    /\ pc = "idle"
    /\ \E h \in HeaderBuffers :
        /\ hb' = h
        /\ ret' = decode_header(h)
    /\ pc' = "header"
    /\ UNCHANGED <<bb, orig, objVars, threadVars>>

\* The caller drops the result.
Drop ==
    /\ pc # "idle"
    /\ pc' = "idle"
    /\ bb' = EmptyTable
    /\ hb' = NoHeader
    /\ orig' = PyNone
    /\ ret' = NoRet
    /\ UNCHANGED <<objVars, threadVars>>

Next == CallColumn \/ CallRoundTrip \/ CallHeader \/ Drop

Spec == Init /\ [][Next]_vars

(***************************************************************************)
(* The objects a caller constructs and holds.  A list is held by           *)
(* reference: HeaderMeta.__init__ stores the references it is passed, the  *)
(* value of the field is the content of the list.  Neither class defines   *)
(* __slots__ or __setattr__: an attribute of an instance can be assigned.  *)
(***************************************************************************)
InitObj ==
    /\ CallsIdle
    /\ ObjectsIdle
    /\ ThreadsIdle
    /\ bufs = [i \in BufferIds |-> EmptyTable]
    /\ bufs0 = bufs

\* The ColumnMeta objects a caller puts into a columns list.
SampleColumns ==
    {from_byte_buffer(b).val : b \in {c \in HeaderColumns : from_byte_buffer(c).ok}}

\* The field values of the object held, the lists read through.
ObjectValue(o, h) ==
    IF o.kind = "header"
    THEN [o EXCEPT !.attrs.columns = h[@], !.attrs.attributes = h[@]]
    ELSE o

\* columns = [...]; attributes = [...]; HeaderMeta(..., columns, ..., attributes)
NewHeaderMeta ==
    /\ obj.kind = "none"
    /\ \E cs \in SeqsUpTo(SampleColumns, MaxCols),
          as \in SeqsUpTo(AttributeValues, MaxCols) :
        /\ heap' = [heap EXCEPT ![1] = cs, ![2] = as]
        /\ obj' = [kind |-> "header", attrs |-> HeaderMetaInit(HeaderArgs(1, 2))]
    /\ snap' = ObjectValue(obj', heap')
    /\ muts' = 0
    /\ UNCHANGED <<callVars, threadVars>>

\* ColumnMeta(name, type), the other parameters at their defaults, or
\* ColumnMeta(name=..., type=..., title=..., ...)
NewColumnMeta ==
    /\ obj.kind = "none"
    /\ \E d \in Descriptors :
        \/ obj' = [kind |-> "column",
                   attrs |-> ColumnMetaInit(d.name, d.type, PyNone, PyNone,
                                            DefaultPrecision, DefaultScale,
                                            DefaultNullable, DefaultUnique,
                                            DefaultPrimaryKey, PyNone)]
        \/ obj' = [kind |-> "column",
                   attrs |-> ColumnMetaInit(d.name, d.type, d.title,
                                            d.description, d.precision,
                                            d.scale, d.nullable, d.unique,
                                            d.primary_key, d.metadata)]
    /\ snap' = ObjectValue(obj', heap)
    /\ muts' = 0
    /\ UNCHANGED <<heap, callVars, threadVars>>

ColumnAttrValues(f) ==
    IF f \in StringFieldNames THEN {PySome(s) : s \in Texts(1)}
    ELSE IF f = "type" THEN {ColumnTypeNames[i] : i \in DOMAIN ColumnTypeNames}
    ELSE IF f \in {"precision", "scale"} THEN -1..MaxInt
    ELSE BOOLEAN

\* column.f = v
SetColumnAttr ==
    /\ obj.kind = "column"
    /\ muts < MaxMutations
    /\ \E f \in DOMAIN obj.attrs :
        \E v \in ColumnAttrValues(f) :
            obj' = [obj EXCEPT !.attrs[f] = v]
    /\ muts' = muts + 1
    /\ UNCHANGED <<heap, snap, callVars, threadVars>>

\* header.features_count = v
SetHeaderAttr ==
    /\ obj.kind = "header"
    /\ muts < MaxMutations
    /\ \E v \in 0..2 :
        obj' = [obj EXCEPT !.attrs.features_count = v]
    /\ muts' = muts + 1
    /\ UNCHANGED <<heap, snap, callVars, threadVars>>

\* columns.append(x) or attributes.append(x), on the list the caller passed
CallerAppend ==
    /\ obj.kind = "header"
    /\ muts < MaxMutations
    /\ \/ \E x \in SampleColumns :
            heap' = [heap EXCEPT ![obj.attrs.columns] = Append(@, x)]
       \/ \E x \in AttributeValues :
            heap' = [heap EXCEPT ![obj.attrs.attributes] = Append(@, x)]
    /\ muts' = muts + 1
    /\ UNCHANGED <<obj, snap, callVars, threadVars>>

\* columns.pop() or attributes.pop(), on the list the caller passed
CallerPop ==
    /\ obj.kind = "header"
    /\ muts < MaxMutations
    /\ \E r \in {obj.attrs.columns, obj.attrs.attributes} :
        /\ heap[r] # <<>>
        /\ heap' = [heap EXCEPT ![r] = SubSeq(@, 1, Len(@) - 1)]
    /\ muts' = muts + 1
    /\ UNCHANGED <<obj, snap, callVars, threadVars>>

\* The caller lets go of the object and its lists.
Discard ==
    /\ obj.kind # "none"
    /\ heap' = [r \in ListIds |-> <<>>]
    /\ obj' = NoObject
    /\ snap' = NoObject
    /\ muts' = 0
    /\ UNCHANGED <<callVars, threadVars>>

NextObj ==
    \/ NewHeaderMeta
    \/ NewColumnMeta
    \/ SetColumnAttr
    \/ SetHeaderAttr
    \/ CallerAppend
    \/ CallerPop
    \/ Discard

SpecObj == InitObj /\ [][NextObj]_vars

(***************************************************************************)
(* Decodes running in several threads on shared buffers: each thread runs  *)
(* the statements of from_byte_buffer one at a time, on its own locals.    *)
(***************************************************************************)
\* The buffers the threads share.
PoolBuffers == HeaderColumns \cup MalformedBuffers

InitConc ==
    /\ CallsIdle
    /\ ObjectsIdle
    /\ ThreadsIdle
    /\ bufs \in [BufferIds -> PoolBuffers]
    /\ bufs0 = bufs

\* Variant of BuffersAfterRead: a read consumes the field.
BuffersAfterReadConsumed(pool, i, f) == [pool EXCEPT ![i][f] = PyNone]
\* What reading field f of buffer i leaves in the buffers: the accessors
\* and bytes.decode write nothing.
BuffersAfterRead(pool, i, f) == pool

\* A thread calls ColumnMeta.from_byte_buffer(bufs[i]).
Begin(t) ==
    /\ tpc[t] = "idle"
    /\ \E i \in BufferIds : targ' = [targ EXCEPT ![t] = i]
    /\ tpc' = [tpc EXCEPT ![t] = "root"]
    /\ tloc' = [tloc EXCEPT ![t] = NoLocals]
    /\ UNCHANGED <<bufs, bufs0, tret, callVars, objVars>>

\* The call raises r.
Raised(t, r) ==
    /\ tret' = [tret EXCEPT ![t] = r]
    /\ tpc' = [tpc EXCEPT ![t] = "done"]
    /\ UNCHANGED tloc

\* fb_column_meta = FBColumnMeta.GetRootAsColumnMeta(bb, 0)
StepRoot(t) ==
    /\ tpc[t] = "root"
    /\ LET r == GetRootAsColumnMeta(bufs[targ[t]])
       IN  IF r.ok
           THEN tpc' = [tpc EXCEPT ![t] = "name"] /\ UNCHANGED <<tloc, tret>>
           ELSE Raised(t, r)
    /\ UNCHANGED <<bufs, bufs0, targ, callVars, objVars>>

\* f = <right-hand side>, for the string fields and the type
StepField(t, f, r, next) ==
    /\ tpc[t] = f
    /\ IF r.ok
       THEN /\ tloc' = [tloc EXCEPT ![t][f] = r.val]
            /\ tpc' = [tpc EXCEPT ![t] = next]
            /\ UNCHANGED tret
       ELSE Raised(t, r)
    /\ bufs' = BuffersAfterRead(bufs, targ[t], f)
    /\ UNCHANGED <<bufs0, targ, callVars, objVars>>

StepName(t) == StepField(t, "name", name_of(bufs[targ[t]]), "type")
StepType(t) == StepField(t, "type", type_of(bufs[targ[t]]), "title")
StepTitle(t) ==
    StepField(t, "title", title_of(bufs[targ[t]]), "description")
StepDescription(t) ==
    StepField(t, "description", description_of(bufs[targ[t]]), "scalars")
StepMetadata(t) ==
    StepField(t, "metadata", metadata_of(bufs[targ[t]]), "construct")

\* precision = ...; scale = ...; nullable = ...; unique = ...; primary_key = ...
StepScalars(t) ==
    /\ tpc[t] = "scalars"
    /\ LET fb == bufs[targ[t]]
       IN  tloc' = [tloc EXCEPT ![t].precision = Precision(fb),
                                ![t].scale = Scale(fb),
                                ![t].nullable = Nullable(fb),
                                ![t].unique = Unique(fb),
                                ![t].primary_key = PrimaryKey(fb)]
    /\ tpc' = [tpc EXCEPT ![t] = "metadata"]
    /\ UNCHANGED <<bufs, bufs0, targ, tret, callVars, objVars>>

\* return cls(name=name, type=type, ...)
StepConstruct(t) ==
    /\ tpc[t] = "construct"
    /\ LET l == tloc[t]
       IN  tret' = [tret EXCEPT ![t] =
                Return(ColumnMetaInit(l.name, l.type, l.title, l.description,
                                      l.precision, l.scale, l.nullable,
                                      l.unique, l.primary_key, l.metadata))]
    /\ tpc' = [tpc EXCEPT ![t] = "done"]
    /\ UNCHANGED <<bufs, bufs0, targ, tloc, callVars, objVars>>

\* The thread drops the result.
End(t) ==
    /\ tpc[t] = "done"
    /\ tpc' = [tpc EXCEPT ![t] = "idle"]
    /\ targ' = [targ EXCEPT ![t] = 1]
    /\ tloc' = [tloc EXCEPT ![t] = NoLocals]
    /\ tret' = [tret EXCEPT ![t] = NoRet]
    /\ UNCHANGED <<bufs, bufs0, callVars, objVars>>

NextConc ==
    \E t \in Threads :
        \/ Begin(t)
        \/ StepRoot(t)
        \/ StepName(t)
        \/ StepType(t)
        \/ StepTitle(t)
        \/ StepDescription(t)
        \/ StepScalars(t)
        \/ StepMetadata(t)
        \/ StepConstruct(t)
        \/ End(t)

SpecConc == InitConc /\ [][NextConc]_vars

(***************************************************************************)
(* What a column record holds, read off the record itself: the fault of    *)
(* each field, and the fault of the first faulty field in the order the    *)
(* decoder reads them.                                                     *)
(***************************************************************************)
ReadOrder == <<"name", "type", "title", "description", "metadata">>

FieldFault(b, f) ==
    IF f = "type"
    THEN (IF b.type \in 0..(Len(ColumnTypeNames) - 1)
          THEN "none" ELSE "InvalidEnum")
    ELSE IF b[f] = OobSlot THEN "MalformedBuffer"
    ELSE IF b[f] # PyNone /\ ~Utf8Valid(b[f][1]) THEN "InvalidEncoding"
    ELSE "none"

FirstFault(b) ==
    IF b.root # "ok" THEN "MalformedBuffer"
    ELSE LET faulty == {i \in DOMAIN ReadOrder :
                            FieldFault(b, ReadOrder[i]) # "none"}
         IN  IF faulty = {} THEN "none"
             ELSE FieldFault(b, ReadOrder[
                      CHOOSE i \in faulty : \A j \in faulty : i <= j])

Malformed(b) == b.root # "ok" \/ \E f \in StringFieldNames : b[f] = OobSlot

ColumnCall == pc \in {"column", "roundtrip"}

(***************************************************************************)
(* Claims on the column decoder.                                           *)
(***************************************************************************)
\* C1: in every decoded column record, a title, description or metadata the
\* record does not hold decodes to None, and a name the record does not
\* hold decodes to the empty string.
C1_AbsentStringsDecodeToDefaults ==
    (ColumnCall /\ ret.ok) =>
        /\ bb.title = PyNone => ret.val.title = PyNone
        /\ bb.description = PyNone => ret.val.description = PyNone
        /\ bb.metadata = PyNone => ret.val.metadata = PyNone
        /\ bb.name = PyNone => ret.val.name = PySome(<<>>)

C1_Witness ==
    /\ pc = "column" /\ ret.ok
    /\ bb.name = PyNone /\ bb.title = PyNone
    /\ bb.description = PyNone /\ bb.metadata = PyNone
    /\ ret.val.name = PySome(<<>>) /\ ret.val.title = PyNone

\* C2: decoding the reference encoding of a valid descriptor returns a
\* ColumnMeta equal to the descriptor in every field.
C2_RoundTrip == pc = "roundtrip" => ret = Return(orig[1])

\* C3 as stated: a type tag outside the enumeration makes the decode fail
\* with InvalidEnum.
C3_InvalidEnumAlways ==
    (ColumnCall /\ bb.root = "ok" /\ FieldFault(bb, "type") # "none") =>
        ret = Raise("InvalidEnum")

\* C3 as amended: a type tag outside the enumeration makes the decode fail
\* and return no ColumnMeta; the error is InvalidEnum when the name is read
\* without error, and the error of the name (read before the type)
\* otherwise.
C3_InvalidEnumAfterName ==
    (ColumnCall /\ bb.root = "ok" /\ FieldFault(bb, "type") # "none") =>
        ret = Raise(IF FieldFault(bb, "name") = "none"
                    THEN "InvalidEnum" ELSE FieldFault(bb, "name"))

C3_Witness ==
    /\ pc = "column" /\ bb.root = "ok"
    /\ FieldFault(bb, "type") = "InvalidEnum"
    /\ ret = Raise("InvalidEnum")

\* C4 as stated: a held string field whose bytes are not valid UTF-8 makes
\* the decode fail with InvalidEncoding.
C4_InvalidEncodingAlways ==
    (/\ ColumnCall /\ bb.root = "ok"
     /\ \E f \in StringFieldNames : FieldFault(bb, f) = "InvalidEncoding") =>
        ret = Raise("InvalidEncoding")

\* C4 as amended: a held string field whose bytes are not valid UTF-8 makes
\* the decode fail and construct no ColumnMeta; the error is that of the
\* first faulty field in the order name, type, title, description,
\* metadata, hence InvalidEncoding unless an out-of-range type or a bad
\* offset is read before the invalid bytes.
C4_InvalidEncodingInReadOrder ==
    (/\ ColumnCall /\ bb.root = "ok"
     /\ \E f \in StringFieldNames : FieldFault(bb, f) = "InvalidEncoding") =>
        ret = Raise(FirstFault(bb))

C4_Witness ==
    /\ pc = "column" /\ bb.root = "ok"
    /\ FieldFault(bb, "name") = "none" /\ FieldFault(bb, "type") = "none"
    /\ FieldFault(bb, "title") = "InvalidEncoding"
    /\ ret = Raise("InvalidEncoding")

\* C10: a string field held with zero-length content decodes exactly as the
\* field not held does: to None for title, description and metadata, to
\* the empty string for name.
C10_EmptyDecodesAsAbsent ==
    ColumnCall =>
        \A f \in StringFieldNames :
            bb[f] = PySome(<<>>) =>
                /\ ret = from_byte_buffer([bb EXCEPT ![f] = PyNone])
                /\ ret.ok =>
                    ret.val[f] = IF f = "name" THEN PySome(<<>>) ELSE PyNone

C10_Witness ==
    /\ pc = "column" /\ ret.ok
    /\ bb.name = PySome(<<>>) /\ bb.title = PySome(<<>>)
    /\ ret.val.name = PySome(<<>>) /\ ret.val.title = PyNone

(***************************************************************************)
(* Claims on the header decoder.                                           *)
(***************************************************************************)
FirstFaulty(cols, k) ==
    /\ FirstFault(cols[k]) # "none"
    /\ \A j \in 1..(k - 1) : FirstFault(cols[j]) = "none"

\* C5: when the column entry at index k is the malformed one, the header
\* decode fails with the error kind of that entry at the path columns[k],
\* and returns no HeaderMeta.
C5_ColumnErrorFailsHeader ==
    (pc = "header" /\ hb.root = "ok") =>
        \A k \in DOMAIN hb.columns :
            FirstFaulty(hb.columns, k) =>
                ret = RaiseAt(FirstFault(hb.columns[k]), k - 1)

C5_Witness ==
    /\ pc = "header" /\ Len(hb.columns) = 2
    /\ FirstFault(hb.columns[1]) = "none"
    /\ FieldFault(hb.columns[2], "description") = "InvalidEncoding"
    /\ ret = RaiseAt("InvalidEncoding", 1)

\* C6: the columns of a decoded header are the decoded column entries of
\* the source header, as many and in the same positions; the attributes
\* are the source's integers in the same order with their duplicates; a
\* header without columns and attributes decodes to empty sequences.
C6_OrderPreserved ==
    (/\ pc = "header" /\ hb.root = "ok"
     /\ \A k \in DOMAIN hb.columns : FirstFault(hb.columns[k]) = "none") =>
        /\ ret.ok
        /\ Len(ret.val.columns) = Len(hb.columns)
        /\ \A k \in DOMAIN hb.columns :
            Return(ret.val.columns[k]) = from_byte_buffer(hb.columns[k])
        /\ ret.val.attributes = hb.attributes

C6_Witness ==
    /\ pc = "header" /\ ret.ok
    /\ Len(hb.columns) = 2 /\ hb.columns[1] # hb.columns[2]
    /\ ret.val.columns[1] # ret.val.columns[2]
    /\ hb.attributes = <<1, 0>> /\ ret.val.attributes = <<1, 0>>

\* C7 as stated: a zero-length buffer or a buffer with an offset past its
\* end makes either decoder fail with MalformedBuffer.
C7_MalformedBufferAlways ==
    /\ (ColumnCall /\ Malformed(bb)) => ret = Raise("MalformedBuffer")
    /\ (pc = "header" /\ hb.root # "ok") => ret = Raise("MalformedBuffer")
    /\ (/\ pc = "header" /\ hb.root = "ok"
        /\ \E k \in DOMAIN hb.columns : Malformed(hb.columns[k])) =>
            (~ret.ok /\ ret.err = "MalformedBuffer")

\* C7 as amended: a zero-length buffer or a root offset past the end makes
\* either decoder fail with MalformedBuffer; a field offset past the end
\* makes the decode fail and return no value object, with the error of the
\* first faulty field in reading order (MalformedBuffer unless invalid
\* UTF-8 or an out-of-range type is read before the bad offset); a header
\* fails with the error of its first faulty column entry.
C7_MalformedBufferInReadOrder ==
    /\ (ColumnCall /\ bb.root # "ok") => ret = Raise("MalformedBuffer")
    /\ (ColumnCall /\ Malformed(bb)) => ret = Raise(FirstFault(bb))
    /\ (pc = "header" /\ hb.root # "ok") => ret = Raise("MalformedBuffer")
    /\ (/\ pc = "header" /\ hb.root = "ok"
        /\ \E k \in DOMAIN hb.columns : Malformed(hb.columns[k])) =>
            /\ ~ret.ok
            /\ \E k \in DOMAIN hb.columns :
                /\ FirstFaulty(hb.columns, k)
                /\ ret.err = FirstFault(hb.columns[k])

C7_Witness ==
    /\ pc = "column" /\ bb.root = "ok"
    /\ bb.name = PySome(<<65>>) /\ bb.title = OobSlot
    /\ ret = Raise("MalformedBuffer")

(***************************************************************************)
(* Claims on the objects.                                                  *)
(***************************************************************************)
\* C9: once its constructor has returned, no field of a ColumnMeta or
\* HeaderMeta changes its value, whatever the holder assigns and whatever
\* the caller does to the lists it passed.
C9_Immutable == obj.kind # "none" => ObjectValue(obj, heap) = snap

(***************************************************************************)
(* Claims on decodes running together.                                     *)
(***************************************************************************)
\* C8: a decode leaves the buffers byte for byte as they were handed over,
\* and every call that has ended, however it was interleaved with the
\* other calls, has the result of decoding its buffer alone.
C8_NoSideEffects ==
    /\ bufs = bufs0
    /\ \A t \in Threads :
        tpc[t] = "done" => tret[t] = from_byte_buffer(bufs0[targ[t]])

C8_Witness ==
    /\ tpc[1] = "done" /\ tpc[2] = "done"
    /\ targ[1] = targ[2]
    /\ tret[1].ok /\ tret[1] = tret[2]
    /\ tret[1].val.name = PySome(<<65>>)

=============================================================================
